---------------------------- MODULE Spec2Model ----------------------------
(***************************************************************************)
(* A model of the contact address book of src/address_book.py (the same    *)
(* classes are split over src/bot/models/record.py and                     *)
(* src/bot/models/address_book.py): the validated fields Name and Phone,   *)
(* Record with its list of phones, and AddressBook, a UserDict keyed by    *)
(* the contact's name.                                                     *)
(*                                                                         *)
(* A Python str is a sequence of Unicode code points.  An object with      *)
(* identity (a Record) is an index into `records`, the sequence of all     *)
(* Record objects constructed so far; the book holds such indices, so a    *)
(* change made through one reference is seen through every other.  A Phone *)
(* object is represented by its value.                                     *)
(***************************************************************************)
EXTENDS Integers, Sequences, FiniteSets, TLC

VARIABLES
    records,    \* every Record object constructed so far: [name, phones]
    data,       \* AddressBook.data, an insertion-ordered dict: <<[key, value]>>
    call,       \* the call the caller has just made: [op, rid, args]
    ret,        \* what that call returned
    exc         \* the exception that call ended with ("None": it returned)

vars == <<records, data, call, ret, exc>>

----------------------------------------------------------------------------
(* Bounds of the model *)

\* Record objects constructed, and Phone objects they hold, in one run
MaxObjects == 4

----------------------------------------------------------------------------
(* String literals, as code points *)

\* ""
EMPTY == <<>>
\* "John"
JOHN == <<74, 111, 104, 110>>
\* "Jane"
JANE == <<74, 97, 110, 101>>
\* "1234567890"
P1 == <<49, 50, 51, 52, 53, 54, 55, 56, 57, 48>>
\* "5555555555"
P2 == <<53, 53, 53, 53, 53, 53, 53, 53, 53, 53>>
\* "1112223333"
P3 == <<49, 49, 49, 50, 50, 50, 51, 51, 51, 51>>
\* "bad"
BAD == <<98, 97, 100>>
\* "Contact name: "
CONTACT_NAME == <<67, 111, 110, 116, 97, 99, 116, 32, 110, 97, 109, 101, 58, 32>>
\* ", phones: "
PHONES == <<44, 32, 112, 104, 111, 110, 101, 115, 58, 32>>
\* "; "
SEMI == <<59, 32>>
\* "\n"
NL == <<10>>

\* The strings the calls of the model are made with
NameArgs == {JOHN, JANE, EMPTY}
PhoneArgs == {P1, P2, P3, BAD}

----------------------------------------------------------------------------
(* Values *)

None == [kind |-> "None"]
RecordRef(rid) == [kind |-> "Record", id |-> rid]
PhoneObj(value) == [kind |-> "Phone", value |-> value]

----------------------------------------------------------------------------
(* Name and Phone: validation *)

\* The number of digits of a phone number: the {10} of r'\d{10}'
PhoneLen == 10

\* \d of a str pattern: a Unicode decimal digit (category Nd).  The blocks
\* listed are those the inputs of the model draw from: ASCII, Arabic-Indic,
\* Extended Arabic-Indic, Devanagari, Fullwidth.
IsDecimalDigit(c) ==
    \/ c \in 48..57
    \/ c \in 1632..1641
    \/ c \in 1776..1785
    \/ c \in 2406..2415
    \/ c \in 65296..65305

\* re.fullmatch(r'\d{10}', value)
fullmatch_d10(value) ==
    /\ Len(value) = PhoneLen
    /\ \A i \in 1..PhoneLen : IsDecimalDigit(value[i])

\* Phone.__init__: the exception it ends with
Phone__init__(value) ==
    IF ~fullmatch_d10(value) THEN "ValueError" ELSE "None"

\* Name.__init__: the exception it ends with
Name__init__(value) ==
    IF value = EMPTY THEN "ValueError" ELSE "None"

----------------------------------------------------------------------------
(* str.join, list comprehension *)

RECURSIVE join(_, _)
join(sep, strs) ==
    IF strs = <<>> THEN <<>>
    ELSE IF Len(strs) = 1 THEN strs[1]
    ELSE strs[1] \o sep \o join(sep, Tail(strs))

\* [p for p in phones if p.value != phone_number]
RECURSIVE FilterNe(_, _)
FilterNe(phones, phone_number) ==
    IF phones = <<>> THEN <<>>
    ELSE IF Head(phones) # phone_number
         THEN <<Head(phones)>> \o FilterNe(Tail(phones), phone_number)
         ELSE FilterNe(Tail(phones), phone_number)

----------------------------------------------------------------------------
(* Record: the methods, on a Record value r = [name, phones].  Each gives   *)
(* the Record as the call leaves it and the exception the call ends with.   *)

\* The number appended before Phone(phone_number) validates it
Record_add_phone_append_first(r, phone_number) ==
    [rec |-> [r EXCEPT !.phones = Append(@, phone_number)],
     exc |-> Phone__init__(phone_number)]

\* Record.add_phone: Phone(phone_number) raises before anything is appended
Record_add_phone(r, phone_number) ==
    IF Phone__init__(phone_number) # "None"
    THEN [rec |-> r, exc |-> Phone__init__(phone_number)]
    ELSE [rec |-> [r EXCEPT !.phones = Append(@, phone_number)], exc |-> "None"]

\* list.remove(phone_number): the first occurrence only
RECURSIVE RemoveFirst(_, _)
RemoveFirst(phones, phone_number) ==
    IF phones = <<>> THEN <<>>
    ELSE IF Head(phones) = phone_number THEN Tail(phones)
    ELSE <<Head(phones)>> \o RemoveFirst(Tail(phones), phone_number)

Record_remove_phone_first(r, phone_number) ==
    [rec |-> [r EXCEPT !.phones = RemoveFirst(@, phone_number)], exc |-> "None"]

\* Record.remove_phone
Record_remove_phone(r, phone_number) ==
    [rec |-> [r EXCEPT !.phones = FilterNe(@, phone_number)], exc |-> "None"]

\* The new number written over the first occurrence of the old one
RECURSIVE ReplaceFirst(_, _, _)
ReplaceFirst(phones, old, new) ==
    IF phones = <<>> THEN <<>>
    ELSE IF Head(phones) = old THEN <<new>> \o Tail(phones)
    ELSE <<Head(phones)>> \o ReplaceFirst(Tail(phones), old, new)

Record_edit_phone_in_place(r, old_phone_number, new_phone_number) ==
    IF Phone__init__(new_phone_number) # "None"
    THEN [rec |-> Record_remove_phone(r, old_phone_number).rec,
          exc |-> Phone__init__(new_phone_number)]
    ELSE IF \E i \in 1..Len(r.phones) : r.phones[i] = old_phone_number
    THEN [rec |-> [r EXCEPT !.phones =
                       ReplaceFirst(@, old_phone_number, new_phone_number)],
          exc |-> "None"]
    ELSE Record_add_phone(r, new_phone_number)

\* The new number validated before the old one is removed
Record_edit_phone_atomic(r, old_phone_number, new_phone_number) ==
    IF Phone__init__(new_phone_number) # "None"
    THEN [rec |-> r, exc |-> Phone__init__(new_phone_number)]
    ELSE Record_add_phone(Record_remove_phone(r, old_phone_number).rec,
                          new_phone_number)

\* Record.edit_phone: remove_phone, then add_phone on what it left
Record_edit_phone(r, old_phone_number, new_phone_number) ==
    Record_add_phone(Record_remove_phone(r, old_phone_number).rec,
                     new_phone_number)

\* Record.find_phone: the first Phone whose value is phone_number, or None
RECURSIVE Record_find_phone(_, _)
Record_find_phone(phones, phone_number) ==
    IF phones = <<>> THEN None
    ELSE IF Head(phones) = phone_number THEN PhoneObj(Head(phones))
    ELSE Record_find_phone(Tail(phones), phone_number)

\* Record.__str__
Record__str__(r) ==
    CONTACT_NAME \o r.name \o PHONES \o join(SEMI, r.phones)

----------------------------------------------------------------------------
(* dict, insertion-ordered: a sequence of [key, value] without two equal   *)
(* keys                                                                    *)

dict_keys(d) == [i \in 1..Len(d) |-> d[i].key]
dict_values(d) == [i \in 1..Len(d) |-> d[i].value]
dict_contains(d, k) == \E i \in 1..Len(d) : d[i].key = k

\* d.get(k, None)
dict_get(d, k) ==
    IF dict_contains(d, k)
    THEN (d[CHOOSE i \in 1..Len(d) : d[i].key = k]).value
    ELSE None

\* d[k] = v: a present key keeps its place, a new key goes last
dict_setitem(d, k, v) ==
    IF dict_contains(d, k)
    THEN [i \in 1..Len(d) |-> IF d[i].key = k THEN [key |-> k, value |-> v] ELSE d[i]]
    ELSE Append(d, [key |-> k, value |-> v])

\* del d[k], for a present key
RECURSIVE dict_delitem(_, _)
dict_delitem(d, k) ==
    IF d = <<>> THEN <<>>
    ELSE IF Head(d).key = k THEN dict_delitem(Tail(d), k)
    ELSE <<Head(d)>> \o dict_delitem(Tail(d), k)

----------------------------------------------------------------------------
(* AddressBook: the methods, on the dict d.  recs are the Record objects.  *)

\* The entry is added only when the name is new
AddressBook_add_record_setdefault(d, recs, rid) ==
    IF dict_contains(d, recs[rid].name) THEN d
    ELSE dict_setitem(d, recs[rid].name, RecordRef(rid))

\* The entry is appended whether or not the name is present
AddressBook_add_record_append(d, recs, rid) ==
    Append(d, [key |-> recs[rid].name, value |-> RecordRef(rid)])

\* A present name is deleted and inserted again
AddressBook_add_record_reinsert(d, recs, rid) ==
    dict_setitem(dict_delitem(d, recs[rid].name), recs[rid].name, RecordRef(rid))

\* AddressBook.add_record
AddressBook_add_record(d, recs, rid) ==
    dict_setitem(d, recs[rid].name, RecordRef(rid))

\* AddressBook.find
AddressBook_find(d, name) == dict_get(d, name)

\* del self.data[name] without the test: KeyError for an absent name
AddressBook_delete_unguarded(d, name) ==
    IF dict_contains(d, name)
    THEN [data |-> dict_delitem(d, name), exc |-> "None"]
    ELSE [data |-> d, exc |-> "KeyError"]

\* AddressBook.delete
AddressBook_delete(d, name) ==
    IF dict_contains(d, name)
    THEN [data |-> dict_delitem(d, name), exc |-> "None"]
    ELSE [data |-> d, exc |-> "None"]

\* AddressBook.__str__
AddressBook__str__(d, recs) ==
    join(NL, [i \in 1..Len(d) |-> Record__str__(recs[dict_values(d)[i].id])])

----------------------------------------------------------------------------
(* The state machine.  A caller (such as the script under __main__) makes  *)
(* one call at a time: the call acts and leaves its outcome in call, ret   *)
(* and exc; the caller takes the outcome and goes on to its next call.  A  *)
(* caller that gets an exception goes on as well: the objects stay as the  *)
(* failed call left them.                                                  *)

Idle == [op |-> "idle", rid |-> 0, args |-> <<>>]
Invoke(op, rid, args) == [op |-> op, rid |-> rid, args |-> args]

RECURSIVE TotalPhones(_)
TotalPhones(recs) ==
    IF recs = <<>> THEN 0 ELSE Len(Head(recs).phones) + TotalPhones(Tail(recs))

\* The Record objects and the Phone objects they hold
Objects(recs) == Len(recs) + TotalPhones(recs)

Rids == 1..Len(records)

\* book = AddressBook(): no Record yet, an empty dict
Init ==
    /\ records = <<>>
    /\ data = <<>>
    /\ call = Idle
    /\ ret = None
    /\ exc = "None"

\* Record(name)
Record__init__(name) ==
    /\ call = Idle
    /\ call' = Invoke("Record", 0, <<name>>)
    /\ UNCHANGED data
    /\ IF Name__init__(name) # "None"
       THEN /\ exc' = Name__init__(name)
            /\ ret' = None
            /\ UNCHANGED records
       ELSE /\ Objects(records) < MaxObjects
            /\ records' = Append(records, [name |-> name, phones |-> <<>>])
            /\ ret' = RecordRef(Len(records) + 1)
            /\ exc' = "None"

\* records[rid].add_phone(phone_number)
add_phone(rid, phone_number) ==
    LET r == Record_add_phone(records[rid], phone_number) IN
    /\ call = Idle
    /\ Objects([records EXCEPT ![rid] = r.rec]) <= MaxObjects
    /\ records' = [records EXCEPT ![rid] = r.rec]
    /\ call' = Invoke("add_phone", rid, <<phone_number>>)
    /\ ret' = None
    /\ exc' = r.exc
    /\ UNCHANGED data

\* records[rid].remove_phone(phone_number)
remove_phone(rid, phone_number) ==
    LET r == Record_remove_phone(records[rid], phone_number) IN
    /\ call = Idle
    /\ records' = [records EXCEPT ![rid] = r.rec]
    /\ call' = Invoke("remove_phone", rid, <<phone_number>>)
    /\ ret' = None
    /\ exc' = r.exc
    /\ UNCHANGED data

\* records[rid].edit_phone(old_phone_number, new_phone_number)
edit_phone(rid, old_phone_number, new_phone_number) ==
    LET r == Record_edit_phone(records[rid], old_phone_number, new_phone_number) IN
    /\ call = Idle
    /\ Objects([records EXCEPT ![rid] = r.rec]) <= MaxObjects
    /\ records' = [records EXCEPT ![rid] = r.rec]
    /\ call' = Invoke("edit_phone", rid, <<old_phone_number, new_phone_number>>)
    /\ ret' = None
    /\ exc' = r.exc
    /\ UNCHANGED data

\* records[rid].find_phone(phone_number)
find_phone(rid, phone_number) ==
    /\ call = Idle
    /\ call' = Invoke("find_phone", rid, <<phone_number>>)
    /\ ret' = Record_find_phone(records[rid].phones, phone_number)
    /\ exc' = "None"
    /\ UNCHANGED <<records, data>>

\* book.add_record(records[rid])
add_record(rid) ==
    /\ call = Idle
    /\ data' = AddressBook_add_record(data, records, rid)
    /\ call' = Invoke("add_record", rid, <<>>)
    /\ ret' = None
    /\ exc' = "None"
    /\ UNCHANGED records

\* book.find(name)
find(name) ==
    /\ call = Idle
    /\ call' = Invoke("find", 0, <<name>>)
    /\ ret' = AddressBook_find(data, name)
    /\ exc' = "None"
    /\ UNCHANGED <<records, data>>

\* book.delete(name)
delete(name) ==
    LET r == AddressBook_delete(data, name) IN
    /\ call = Idle
    /\ data' = r.data
    /\ call' = Invoke("delete", 0, <<name>>)
    /\ ret' = None
    /\ exc' = r.exc
    /\ UNCHANGED records

\* The caller takes the outcome of its call and goes on
Continue ==
    /\ call # Idle
    /\ call' = Idle
    /\ ret' = None
    /\ exc' = "None"
    /\ UNCHANGED <<records, data>>

Next ==
    \/ \E name \in NameArgs : Record__init__(name)
    \/ \E rid \in Rids, n \in PhoneArgs : add_phone(rid, n)
    \/ \E rid \in Rids, n \in PhoneArgs : remove_phone(rid, n)
    \/ \E rid \in Rids, old \in PhoneArgs, new \in PhoneArgs : edit_phone(rid, old, new)
    \/ \E rid \in Rids, n \in PhoneArgs : find_phone(rid, n)
    \/ \E rid \in Rids : add_record(rid)
    \/ \E name \in NameArgs : find(name)
    \/ \E name \in NameArgs : delete(name)
    \/ Continue

Spec == Init /\ [][Next]_vars

----------------------------------------------------------------------------
(* Phone(value) on its own, over strings one edit away from a phone number *)

\* '/', '0', '7', '9', ':' (the ASCII digits and their neighbours), '\n',
\* ' ', '+', '-', 'a', SUPERSCRIPT TWO, ARABIC-INDIC DIGIT THREE,
\* FULLWIDTH DIGIT FIVE
ProbeChars == {47, 48, 55, 57, 58, 10, 32, 43, 45, 97, 178, 1635, 65301}

ProbeStrings ==
    LET bases == {P1, P2, P3} IN
    {EMPTY, BAD} \cup bases
    \cup {[s EXCEPT ![i] = c] : s \in bases, i \in 1..PhoneLen, c \in ProbeChars}
    \cup {SubSeq(s, 1, i - 1) \o <<c>> \o SubSeq(s, i, Len(s)) :
              s \in bases, i \in 1..(PhoneLen + 1), c \in ProbeChars}
    \cup {SubSeq(s, 1, i - 1) \o SubSeq(s, i + 1, Len(s)) :
              s \in bases, i \in 1..PhoneLen}

\* Phone(value)
Phone(value) ==
    /\ call = Idle
    /\ call' = Invoke("Phone", 0, <<value>>)
    /\ exc' = Phone__init__(value)
    /\ ret' = IF Phone__init__(value) = "None" THEN PhoneObj(value) ELSE None
    /\ UNCHANGED <<records, data>>

PhoneNext ==
    \/ \E value \in ProbeStrings : Phone(value)
    \/ Continue

PhoneSpec == Init /\ [][PhoneNext]_vars

----------------------------------------------------------------------------
(* The claims *)

IsAsciiDigit(c) == c \in 48..57

TenAsciiDigits(s) ==
    /\ Len(s) = PhoneLen
    /\ \A i \in 1..Len(s) : IsAsciiDigit(s[i])

TenDecimalDigits(s) ==
    /\ Len(s) = PhoneLen
    /\ \A i \in 1..Len(s) : IsDecimalDigit(s[i])

Occurs(seq, x) == \E i \in 1..Len(seq) : seq[i] = x

\* seq without every element equal to x, the rest in their order
Without(seq, x) ==
    LET Keep(e) == e # x IN SelectSeq(seq, Keep)

\* C1: Phone(s) succeeds if and only if s is exactly 10 characters, each an
\* ASCII digit '0'-'9'; every other string ends with a validation error and
\* no Phone is produced.
C1_PhoneIffTenAsciiDigits ==
    call.op = "Phone" =>
        IF TenAsciiDigits(call.args[1])
        THEN exc = "None" /\ ret = PhoneObj(call.args[1])
        ELSE exc = "ValueError" /\ ret = None

\* C2: the Record "John" with phones 1234567890, 5555555555 has, after
\* edit_phone("1234567890", "1112223333"), the phones 1112223333, 5555555555
\* and renders as "Contact name: John, phones: 1112223333; 5555555555".
C2_DemoEditKeepsPosition ==
    [][(/\ call'.op = "edit_phone"
        /\ call'.args = <<P1, P3>>
        /\ records[call'.rid] = [name |-> JOHN, phones |-> <<P1, P2>>])
       => /\ records'[call'.rid].phones = <<P3, P2>>
          /\ Record__str__(records'[call'.rid])
                 = CONTACT_NAME \o JOHN \o PHONES \o P3 \o SEMI \o P2]_vars

C4_EditNotAtomic ==
    [][(call'.op = "edit_phone" /\ ~TenDecimalDigits(call'.args[2]))
       => LET rid == call'.rid
              old == call'.args[1]
              new == call'.args[2]
          IN  /\ exc' = "ValueError"
              /\ records'[rid].phones = Without(records[rid].phones, old)
              /\ ~Occurs(records'[rid].phones, new)
              /\ Occurs(records[rid].phones, old) => records'[rid] # records[rid]]_vars

\* edit_phone("1234567890", "bad") has failed and left no phone
C4_Witness ==
    /\ call.op = "edit_phone"
    /\ call.args = <<P1, BAD>>
    /\ exc = "ValueError"
    /\ records[call.rid].phones = <<>>

\* C5: remove_phone(n) leaves exactly the phones that differ from n, in their
\* order; it raises nothing; with no phone equal to n the phones are
\* unchanged; a second remove_phone(n) changes nothing more.
C5_RemoveAllOccurrences ==
    [][call'.op = "remove_phone"
       => LET rid == call'.rid
              n == call'.args[1]
          IN  /\ exc' = "None"
              /\ records'[rid].phones = Without(records[rid].phones, n)
              /\ ~Occurs(records[rid].phones, n) => records'[rid] = records[rid]
              /\ Record_remove_phone(records'[rid], n).rec = records'[rid]]_vars

\* remove_phone("5555555555") has left the two other numbers, in their order
C5_Witness ==
    /\ call.op = "remove_phone"
    /\ call.args = <<P2>>
    /\ records[call.rid].phones = <<P1, P3>>

\* C6: after add_record(r), find(r.name.value) returns r itself, also when the
\* name was present: the earlier Record is replaced, no Record is changed
\* (no merge), no error, and the entries of all other names are unchanged.
C6_AddRecordThenFind ==
    [][call'.op = "add_record"
       => LET rid == call'.rid IN
          /\ exc' = "None"
          /\ AddressBook_find(data', records[rid].name) = RecordRef(rid)
          /\ records' = records
          /\ \A name \in NameArgs \ {records[rid].name} :
                 AddressBook_find(data', name) = AddressBook_find(data, name)]_vars

\* the second Record of a name has replaced the first one, which holds a
\* phone, while another name is in the book
C6_Witness ==
    /\ call.op = "add_record"
    /\ Len(data) = 2
    /\ \E old \in Rids \ {call.rid} :
           /\ records[old].name = records[call.rid].name
           /\ records[old].phones # <<>>
           /\ ~Occurs(dict_values(data), RecordRef(old))
    /\ records[call.rid].phones = <<>>
    /\ AddressBook_find(data, records[call.rid].name) = RecordRef(call.rid)

\* C7: after delete(n), find(n) returns None; delete(n) raises nothing, and
\* leaves the mapping unchanged when n is absent; the entries of every other
\* name, and their order, are unchanged.
C7_DeleteThenFind ==
    [][call'.op = "delete"
       => LET name == call'.args[1]
              Other(e) == e.key # name
          IN  /\ exc' = "None"
              /\ AddressBook_find(data', name) = None
              /\ ~Occurs(dict_keys(data), name) => data' = data
              /\ data' = SelectSeq(data, Other)
              /\ records' = records]_vars

\* a name has been deleted, another one is left
C7_Witness ==
    /\ call.op = "delete"
    /\ Len(data) = 1
    /\ \E rid \in Rids : records[rid].name = call.args[1]
    /\ data[1].key # call.args[1]

KeysAreNames ==
    /\ \A i \in 1..Len(data) :
           /\ data[i].value.id \in Rids
           /\ data[i].key = records[data[i].value.id].name
    /\ \A i, j \in 1..Len(data) : data[i].key = data[j].key => i = j

\* C9: every entry's key is the name of the Record stored under it, each name
\* is a key at most once, and no call changes the name of a Record.
C9_KeysAreNames ==
    /\ KeysAreNames
    /\ [][/\ KeysAreNames'
          /\ \A rid \in Rids : records'[rid].name = records[rid].name]_vars

\* a phone of a Record of a book of two names has been edited
C9_Witness ==
    /\ call.op = "edit_phone"
    /\ exc = "None"
    /\ Len(data) = 2
    /\ Occurs(dict_values(data), RecordRef(call.rid))

\* C10: the book enumerates and renders exactly the present Records, one per
\* name, in the order the names were inserted since they were last absent:
\* add_record of a present name keeps its place, add_record of an absent name
\* (a deleted one too) puts it last, and no other call but delete changes the
\* order.
C10_InsertionOrder ==
    [][/\ call'.op = "add_record"
              => dict_keys(data') =
                     IF Occurs(dict_keys(data), records[call'.rid].name)
                     THEN dict_keys(data)
                     ELSE Append(dict_keys(data), records[call'.rid].name)
       /\ call'.op = "delete"
              => dict_keys(data') = Without(dict_keys(data), call'.args[1])
       /\ call'.op \notin {"add_record", "delete"} => data' = data
       /\ \A i \in 1..Len(data') :
              dict_values(data')[i] = AddressBook_find(data', dict_keys(data')[i])
       /\ AddressBook__str__(data', records') =
              join(NL, [i \in 1..Len(data') |->
                  Record__str__(records'[AddressBook_find(data', dict_keys(data')[i]).id])])
      ]_vars

\* a Record has replaced the one of the first of two names
C10_Witness ==
    /\ call.op = "add_record"
    /\ Len(data) = 2
    /\ data[1].value = RecordRef(call.rid)
    /\ \E old \in Rids \ {call.rid} :
           /\ records[old].name = records[call.rid].name
           /\ ~Occurs(dict_values(data), RecordRef(old))

============================================================================
